---- MODULE Spec2Model ----
\* A model of jira_git_linker.py: the ticket-id extractor, the linker, the
\* console reporter, the CSV exporter and main.
\*
\* Representation.  A Python str is a sequence of one-character strings, so
\* that the regular expression search is computed character by character.
\* An Optional[X] is a sequence of length 0 (None) or 1 (<<x>>).  A dict is a
\* sequence of entries in insertion order, which is the order Python's dict
\* iterates in.  Passive labels (status, assignee, state, author, web_url)
\* are TLA+ strings.
EXTENDS Integers, Sequences, FiniteSets, TLC

VARIABLES
    pc,                 \* the statement control is at
    csv_output,         \* args.csv_output (Optional[str]) once parsed
    jira_client,        \* Optional MockJiraClient: [_issues |-> dict key -> JiraIssue]
    git_client,         \* Optional MockGitClient: [_mrs |-> list of MergeRequest]
    frame,              \* the locals of the running link_jira_and_git call
    result,             \* Optional (linked, mrs_without_ticket) bound at line 303
    previous,           \* results of earlier link_jira_and_git calls (two-call harness)
    stdout,             \* the lines printed so far
    csv_file,           \* Optional contents of the destination file: list of written rows
    exit_status,        \* Optional process exit status
    probe,              \* extractor harness: the merge requests handed to the extractor
    probe_ids           \* extractor harness: what the extractor returned for each

vars == <<pc, csv_output, jira_client, git_client, frame, result, previous,
          stdout, csv_file, exit_status, probe, probe_ids>>

\* ------------------------------------------------------------------ bounds
MaxMRs == 3         \* longest merge-request list enumerated
MaxIssues == 2      \* largest generated ticket store
MaxRuns == 2        \* calls of link_jira_and_git in the two-call harness

\* ------------------------------------------------------------- Python values
None == <<>>
Some(x) == <<x>>
\* Python truthiness of an Optional[str]: None and "" are false.
Truthy(opt) == opt # None /\ opt[1] # <<>>

\* -------------------------------------------------------------- characters
LowerLetters == <<"a","b","c","d","e","f","g","h","i","j","k","l","m",
                  "n","o","p","q","r","s","t","u","v","w","x","y","z">>
UpperLetters == <<"A","B","C","D","E","F","G","H","I","J","K","L","M",
                  "N","O","P","Q","R","S","T","U","V","W","X","Y","Z">>
Digits == {"0","1","2","3","4","5","6","7","8","9"}

\* str.upper() on one character.
UpperChar(c) ==
    IF \E k \in 1..26 : LowerLetters[k] = c
    THEN UpperLetters[CHOOSE k \in 1..26 : LowerLetters[k] = c]
    ELSE c

\* str.upper()
Upper(s) == [k \in 1..Len(s) |-> UpperChar(s[k])]

\* The literal part of TICKET_PATTERN, r"(MBUX-\d+)".
PatternPrefix == <<"M","B","U","X","-">>

\* re.IGNORECASE: a pattern letter matches a text character of either case.
CharMatches(p, c) == UpperChar(c) = UpperChar(p)

\* The literal prefix matches at position i of text.
PrefixAt(text, i) ==
    /\ i + Len(PatternPrefix) - 1 <= Len(text)
    /\ \A k \in 1..Len(PatternPrefix) : CharMatches(PatternPrefix[k], text[i + k - 1])

\* \d+ is greedy: the index of the last digit of the run starting at j
\* (j - 1 when text[j] is no digit).
RECURSIVE DigitsEnd(_, _)
DigitsEnd(text, j) ==
    IF j <= Len(text) /\ text[j] \in Digits THEN DigitsEnd(text, j + 1) ELSE j - 1

\* The end index of the match of TICKET_PATTERN starting at i, or 0.
MatchEndAt(text, i) ==
    IF PrefixAt(text, i)
    THEN LET e == DigitsEnd(text, i + Len(PatternPrefix))
         IN  IF e >= i + Len(PatternPrefix) THEN e ELSE 0
    ELSE 0

\* TICKET_PATTERN.search(text) scanning from position i: the leftmost match,
\* as Optional group(1).
RECURSIVE SearchFrom(_, _)
SearchFrom(text, i) ==
    IF i > Len(text) THEN None
    ELSE IF MatchEndAt(text, i) > 0 THEN Some(SubSeq(text, i, MatchEndAt(text, i)))
    ELSE SearchFrom(text, i + 1)

TICKET_PATTERN_search(text) == SearchFrom(text, 1)

\* A variant that tries the branch before the title.
Candidates_BranchFirst(mr) == <<mr.source_branch, mr.title>>

\* The candidates of one merge request, in the order the loop tries them.
Candidates(mr) == <<mr.title, mr.source_branch>>

\* for text in (mr.title, mr.source_branch): first candidate with a match wins.
RECURSIVE ExtractFrom(_, _)
ExtractFrom(texts, k) ==
    IF k > Len(texts) THEN None
    ELSE LET m == TICKET_PATTERN_search(texts[k])
         IN  IF m # None THEN Some(Upper(m[1])) ELSE ExtractFrom(texts, k + 1)

extract_ticket_id_from_mr(mr) == ExtractFrom(Candidates(mr), 1)

\* ------------------------------------------------------------- data models
JiraIssue(key, summary, status, assignee) ==
    [key |-> key, summary |-> summary, status |-> status, assignee |-> assignee]

MergeRequest(id, title, source_branch, state, author, web_url) ==
    [id |-> id, title |-> title, source_branch |-> source_branch,
     state |-> state, author |-> author, web_url |-> web_url]

\* ------------------------------------------------------------------- dicts
\* dict.get(key): Optional value.
DictGet(d, key) ==
    IF \E k \in 1..Len(d) : d[k].key = key
    THEN Some(d[CHOOSE k \in 1..Len(d) : d[k].key = key].value)
    ELSE None

\* list(dict.values())
DictValues(d) == [k \in 1..Len(d) |-> d[k].value]

\* A variant of setdefault-append that rebinds the key to a fresh list.
SetDefaultAppend_Overwrite(d, key, x) ==
    IF \E k \in 1..Len(d) : d[k].key = key
    THEN [k \in 1..Len(d) |->
            IF d[k].key = key THEN [d[k] EXCEPT !.value = <<x>>] ELSE d[k]]
    ELSE Append(d, [key |-> key, value |-> <<x>>])

\* d.setdefault(key, []).append(x)
SetDefaultAppend(d, key, x) ==
    IF \E k \in 1..Len(d) : d[k].key = key
    THEN [k \in 1..Len(d) |->
            IF d[k].key = key THEN [d[k] EXCEPT !.value = Append(@, x)] ELSE d[k]]
    ELSE Append(d, [key |-> key, value |-> <<x>>])

\* ----------------------------------------------------------- the fixtures
Key(digits) == PatternPrefix \o digits

Title1 ==
    <<"M","B","U","X","-","1","2","3",":"," ","F","i","x"," ",
      "N","L","U"," ","c","r","a","s","h"," ","w","h","e","n",
      " ","n","a","v","i","g","a","t","i","n","g"," ","h","o",
      "m","e">>
Branch1 ==
    <<"f","e","a","t","u","r","e","/","M","B","U","X","-","1",
      "2","3","-","f","i","x","-","n","l","u","-","c","r","a",
      "s","h">>
Title2 ==
    <<"I","m","p","r","o","v","e"," ","l","o","g","g","i","n",
      "g"," ","f","o","r"," ","t","e","s","t"," ","f","a","i",
      "l","u","r","e","s">>
Branch2 ==
    <<"f","e","a","t","u","r","e","/","M","B","U","X","-","7",
      "8","9","-","l","o","g","g","i","n","g">>
Title3 ==
    <<"W","I","P",":"," ","e","x","p","e","r","i","m","e","n",
      "t"," ","w","i","t","h"," ","a","u","d","i","o"," ","p",
      "i","p","e","l","i","n","e">>
Branch3 ==
    <<"e","x","p","e","r","i","m","e","n","t","/","a","u","d",
      "i","o","-","r","e","f","a","c","t","o","r">>

\* MockJiraClient.__init__: the dict literal, every entry under its issue's key.
FixtureIssues ==
    << [key |-> Key(<<"1","2","3">>),
        value |-> JiraIssue(Key(<<"1","2","3">>), "Fix navigation crash",
                            "In Progress", "alice")],
       [key |-> Key(<<"4","5","6">>),
        value |-> JiraIssue(Key(<<"4","5","6">>), "Improve ASR latency",
                            "To Do", "bob")],
       [key |-> Key(<<"7","8","9">>),
        value |-> JiraIssue(Key(<<"7","8","9">>), "Add logging for HIL failures",
                            "Done", "carol")] >>

\* MockGitClient.__init__: the list literal.
FixtureMRs ==
    << MergeRequest(1, Title1, Branch1, "merged", "dave", "https://git.example.com/pr/1"),
       MergeRequest(2, Title2, Branch2, "open", "erin", "https://git.example.com/pr/2"),
       MergeRequest(3, Title3, Branch3, "open", "frank", "https://git.example.com/pr/3") >>

\* ------------------------------------------- the enumerated source contents
\* The mock clients stand for replaceable sources, so besides the fixture
\* the model enumerates small ticket stores and merge-request lists.
StoreKeys == {Key(<<"1">>), Key(<<"2">>), Key(<<"1","2">>)}

IssueEntry(key) == [key |-> key, value |-> JiraIssue(key, "summary", "To Do", "alice")]

\* Dicts over StoreKeys: no key twice, any insertion order.
GeneratedStores ==
    LET keyLists == UNION {[1..n -> StoreKeys] : n \in 0..MaxIssues}
    IN  {[k \in 1..Len(ks) |-> IssueEntry(ks[k])] :
            ks \in {l \in keyLists : \A a, b \in 1..Len(l) : a # b => l[a] # l[b]}}

Stores == GeneratedStores \cup {FixtureIssues}

Wip == <<"w","i","p">>

\* (title, source_branch) of the enumerated merge requests:
\*   id in both texts; id in the branch only; no id at all; two different ids
\*   in the title and a third in the branch; a mixed-case id with two digits.
MRKinds ==
    { [title |-> Key(<<"1">>), source_branch |-> <<"f","/">> \o Key(<<"1">>) \o <<"x">>],
      [title |-> Wip, source_branch |-> <<"f","/","m","b","u","x","-","2">>],
      [title |-> Wip, source_branch |-> <<"M","B","U","X","-">>],
      [title |-> <<"m","b","u","x","-","2"," ">> \o Key(<<"1">>),
       source_branch |-> Key(<<"1","2">>)],
      [title |-> <<"M","b","u","x","-","1","2">>, source_branch |-> <<>>] }

\* Lists of merge requests: the id of each is its position, so ids are unique.
GeneratedMRLists ==
    LET kindLists == UNION {[1..n -> MRKinds] : n \in 0..MaxMRs}
    IN  {[k \in 1..Len(ks) |->
            MergeRequest(k, ks[k].title, ks[k].source_branch, "open", "dev", "url")] :
            ks \in kindLists}

MRLists == GeneratedMRLists \cup {FixtureMRs}

\* The values args.csv_output can take: flag absent, flag with an empty
\* value, flag with a path.
CsvArgs == {None, Some(<<>>), Some(<<"r",".","c","s","v">>)}

\* --------------------------------------------------------- source queries
\* A variant that resolves a key to the first issue whose key starts with it.
get_issue_ByPrefix(client, key) ==
    LET d == client._issues
        hit(k) == Len(d[k].key) >= Len(key) /\ SubSeq(d[k].key, 1, Len(key)) = key
    IN  IF \E k \in 1..Len(d) : hit(k)
        THEN Some(d[CHOOSE k \in 1..Len(d) : hit(k) /\ \A j \in 1..(k - 1) : ~hit(j)].value)
        ELSE None

\* MockJiraClient.get_issue
get_issue(client, key) == DictGet(client._issues, key)

\* MockJiraClient.list_all_issues
list_all_issues(client) == DictValues(client._issues)

\* MockGitClient.list_merge_requests: the list itself, not a copy.
list_merge_requests(client) == client._mrs

\* ------------------------------------------------------ link_jira_and_git
NoFrame ==
    [mrs |-> <<>>, ticket_to_mrs |-> <<>>, mrs_without_ticket |-> <<>>,
     linked |-> <<>>, mr_idx |-> 0, grp_idx |-> 0]

\* A variant whose unlinked list outlives the call (a list shared between
\* calls instead of a fresh one).
LinkCall_SharedList ==
    /\ pc = "link_jira_and_git"
    /\ frame' = [mrs |-> list_merge_requests(git_client[1]),
                 ticket_to_mrs |-> <<>>,
                 mrs_without_ticket |-> frame.mrs_without_ticket,
                 linked |-> <<>>,
                 mr_idx |-> 0,
                 grp_idx |-> 0]
    /\ pc' = "for_mr"
    /\ UNCHANGED <<csv_output, jira_client, git_client, result, previous,
                   stdout, csv_file, exit_status, probe, probe_ids>>

\* Lines 136-138: the call binds fresh locals.
LinkCall ==
    /\ pc = "link_jira_and_git"
    /\ frame' = [mrs |-> list_merge_requests(git_client[1]),
                 ticket_to_mrs |-> <<>>,
                 mrs_without_ticket |-> <<>>,
                 linked |-> <<>>,
                 mr_idx |-> 0,
                 grp_idx |-> 0]
    /\ pc' = "for_mr"
    /\ UNCHANGED <<csv_output, jira_client, git_client, result, previous,
                   stdout, csv_file, exit_status, probe, probe_ids>>

\* A variant of the first loop that puts an id-less merge request at the
\* front of the unlinked list.
LinkForMr_Prepend ==
    /\ pc = "for_mr"
    /\ frame.mr_idx < Len(frame.mrs)
    /\ LET mr == frame.mrs[frame.mr_idx + 1]
           ticket_id == extract_ticket_id_from_mr(mr)
       IN  frame' =
             IF Truthy(ticket_id)
             THEN [frame EXCEPT
                     !.ticket_to_mrs = SetDefaultAppend(@, ticket_id[1], mr),
                     !.mr_idx = @ + 1]
             ELSE [frame EXCEPT
                     !.mrs_without_ticket = <<mr>> \o @,
                     !.mr_idx = @ + 1]
    /\ UNCHANGED <<pc, csv_output, jira_client, git_client, result, previous,
                   stdout, csv_file, exit_status, probe, probe_ids>>

\* Lines 140-145: one iteration of "for mr in mrs".
LinkForMr ==
    /\ pc = "for_mr"
    /\ frame.mr_idx < Len(frame.mrs)
    /\ LET mr == frame.mrs[frame.mr_idx + 1]
           ticket_id == extract_ticket_id_from_mr(mr)
       IN  frame' =
             IF Truthy(ticket_id)
             THEN [frame EXCEPT
                     !.ticket_to_mrs = SetDefaultAppend(@, ticket_id[1], mr),
                     !.mr_idx = @ + 1]
             ELSE [frame EXCEPT
                     !.mrs_without_ticket = Append(@, mr),
                     !.mr_idx = @ + 1]
    /\ UNCHANGED <<pc, csv_output, jira_client, git_client, result, previous,
                   stdout, csv_file, exit_status, probe, probe_ids>>

\* Line 147: the first loop is exhausted, linked starts empty.
LinkForMrDone ==
    /\ pc = "for_mr"
    /\ frame.mr_idx = Len(frame.mrs)
    /\ frame' = [frame EXCEPT !.linked = <<>>, !.grp_idx = 0]
    /\ pc' = "for_ticket"
    /\ UNCHANGED <<csv_output, jira_client, git_client, result, previous,
                   stdout, csv_file, exit_status, probe, probe_ids>>

\* A variant of the second loop that drops the merge requests of an unknown ticket.
LinkForTicket_DropUnknown ==
    /\ pc = "for_ticket"
    /\ frame.grp_idx < Len(frame.ticket_to_mrs)
    /\ LET entry == frame.ticket_to_mrs[frame.grp_idx + 1]
           issue == get_issue(jira_client[1], entry.key)
       IN  frame' =
             IF issue # None
             THEN [frame EXCEPT
                     !.linked = Append(@, [issue |-> issue[1], mrs |-> entry.value]),
                     !.grp_idx = @ + 1]
             ELSE [frame EXCEPT !.grp_idx = @ + 1]
    /\ UNCHANGED <<pc, csv_output, jira_client, git_client, result, previous,
                   stdout, csv_file, exit_status, probe, probe_ids>>

\* Lines 148-154: one iteration of "for ticket_id, mrs_for_ticket in
\* ticket_to_mrs.items()".
LinkForTicket ==
    /\ pc = "for_ticket"
    /\ frame.grp_idx < Len(frame.ticket_to_mrs)
    /\ LET entry == frame.ticket_to_mrs[frame.grp_idx + 1]
           ticket_id == entry.key
           mrs_for_ticket == entry.value
           issue == get_issue(jira_client[1], ticket_id)
       IN  frame' =
             IF issue # None
             THEN [frame EXCEPT
                     !.linked = Append(@, [issue |-> issue[1], mrs |-> mrs_for_ticket]),
                     !.grp_idx = @ + 1]
             ELSE [frame EXCEPT
                     !.mrs_without_ticket = @ \o mrs_for_ticket,
                     !.grp_idx = @ + 1]
    /\ UNCHANGED <<pc, csv_output, jira_client, git_client, result, previous,
                   stdout, csv_file, exit_status, probe, probe_ids>>

\* Line 156, and the caller binding the returned pair; control continues at cont.
LinkReturn(cont) ==
    /\ pc = "for_ticket"
    /\ frame.grp_idx = Len(frame.ticket_to_mrs)
    /\ result' = Some([linked |-> frame.linked,
                       mrs_without_ticket |-> frame.mrs_without_ticket])
    /\ pc' = cont
    /\ UNCHANGED <<csv_output, jira_client, git_client, frame, previous,
                   stdout, csv_file, exit_status, probe, probe_ids>>

\* ------------------------------------------------------- print_ascii_table
Line(section, kind, cells) == [section |-> section, kind |-> kind, cells |-> cells]

\* The rows of one linked pair (lines 181-185).
PairRows(pair) ==
    [k \in 1..Len(pair.mrs) |->
        Line(1, "row", <<pair.issue.key, pair.issue.status, pair.issue.assignee,
                         pair.mrs[k].id, pair.mrs[k].state, pair.mrs[k].author,
                         pair.mrs[k].title>>)]

\* Lines 180-185: for issue, mrs in linked: for mr in mrs: print(...)
RECURSIVE LinkedRows(_, _)
LinkedRows(linked, k) ==
    IF k > Len(linked) THEN <<>> ELSE PairRows(linked[k]) \o LinkedRows(linked, k + 1)

\* Lines 187 and 232: {i.key for i, _ in linked}
AllTicketIds(linked) == {linked[k].issue.key : k \in 1..Len(linked)}

\* A variant that forgets the filter on linked keys.
IssuesWithoutMR_All(linked, client) == list_all_issues(client)

\* Lines 192-193 and 254-255: the issues whose key is not a linked key.
IssuesWithoutMR(linked, client) ==
    SelectSeq(list_all_issues(client), LAMBDA issue : issue.key \notin AllTicketIds(linked))

\* Everything print_ascii_table prints, in order (column padding left out:
\* a cell is the value that is formatted into it).
ReportLines(linked, mrs_without_ticket, client) ==
    LET without == IssuesWithoutMR(linked, client)
    IN  << Line(1, "title", <<"=== Jira Tickets with Merge Requests ===">>),
           Line(1, "header", <<"Ticket", "Status", "Assignee", "MR ID", "MR State",
                               "Author", "Title">>),
           Line(1, "rule", <<>>) >>
        \o LinkedRows(linked, 1)
        \o << Line(2, "title", <<"=== Jira Tickets WITHOUT any Merge Request ===">>),
              Line(2, "header", <<"Ticket", "Status", "Assignee", "Summary">>),
              Line(2, "rule", <<>>) >>
        \o [k \in 1..Len(without) |->
              Line(2, "row", <<without[k].key, without[k].status, without[k].assignee,
                               without[k].summary>>)]
        \o << Line(3, "title", <<"=== Merge Requests WITHOUT linked Jira Ticket ===">>),
              Line(3, "header", <<"MR ID", "State", "Author", "Title">>),
              Line(3, "rule", <<>>) >>
        \o [k \in 1..Len(mrs_without_ticket) |->
              Line(3, "row", <<mrs_without_ticket[k].id, mrs_without_ticket[k].state,
                               mrs_without_ticket[k].author, mrs_without_ticket[k].title>>)]

\* ---------------------------------------------------------------- export_csv
fieldnames ==
    <<"ticket_key", "ticket_status", "ticket_assignee", "mr_id", "mr_state",
      "mr_author", "mr_title">>

CsvRow(ticket_key, ticket_status, ticket_assignee, mr_id, mr_state, mr_author, mr_title) ==
    [kind |-> "row",
     cells |-> [ticket_key |-> ticket_key, ticket_status |-> ticket_status,
                ticket_assignee |-> ticket_assignee, mr_id |-> mr_id,
                mr_state |-> mr_state, mr_author |-> mr_author, mr_title |-> mr_title]]

\* A variant that writes one row per linked ticket, for its first MR only.
CsvPairRows_FirstOnly(pair) ==
    << CsvRow(Some(pair.issue.key), Some(pair.issue.status), Some(pair.issue.assignee),
              Some(pair.mrs[1].id), Some(pair.mrs[1].state), Some(pair.mrs[1].author),
              Some(pair.mrs[1].title)) >>

\* Lines 240-251 for one linked pair.
CsvPairRows(pair) ==
    [k \in 1..Len(pair.mrs) |->
        CsvRow(Some(pair.issue.key), Some(pair.issue.status), Some(pair.issue.assignee),
               Some(pair.mrs[k].id), Some(pair.mrs[k].state), Some(pair.mrs[k].author),
               Some(pair.mrs[k].title))]

RECURSIVE CsvLinkedRows(_, _)
CsvLinkedRows(linked, k) ==
    IF k > Len(linked) THEN <<>>
    ELSE CsvPairRows(linked[k]) \o CsvLinkedRows(linked, k + 1)

\* Everything export_csv writes, in order: the header, then the three groups.
CsvLines(linked, mrs_without_ticket, client) ==
    LET without == IssuesWithoutMR(linked, client)
    IN  << [kind |-> "header", cells |-> fieldnames] >>
        \o CsvLinkedRows(linked, 1)
        \o [k \in 1..Len(without) |->
              CsvRow(Some(without[k].key), Some(without[k].status),
                     Some(without[k].assignee), None, None, None,
                     Some(without[k].summary))]
        \o [k \in 1..Len(mrs_without_ticket) |->
              CsvRow(None, None, None, Some(mrs_without_ticket[k].id),
                     Some(mrs_without_ticket[k].state),
                     Some(mrs_without_ticket[k].author),
                     Some(mrs_without_ticket[k].title))]

\* A variant that catches the OSError and lets the run end normally.
ExportOpenFails_Swallowed ==
    /\ pc = "export_csv"
    /\ pc' = "done"
    /\ exit_status' = Some(0)
    /\ UNCHANGED <<csv_output, jira_client, git_client, frame, result, previous,
                   stdout, csv_file, probe, probe_ids>>

\* Line 234 raises OSError: the destination cannot be opened.  Nothing catches
\* it, so it leaves main and the interpreter exits with status 1.
ExportOpenFails ==
    /\ pc = "export_csv"
    /\ pc' = "failed"
    /\ exit_status' = Some(1)
    /\ UNCHANGED <<csv_output, jira_client, git_client, frame, result, previous,
                   stdout, csv_file, probe, probe_ids>>

\* The destination opens (and is truncated) but a later write raises OSError:
\* the file keeps what was written before, the with-block closes it, and the
\* exception leaves main.
ExportWriteFails ==
    /\ pc = "export_csv"
    /\ LET lines == CsvLines(result[1].linked, result[1].mrs_without_ticket,
                             jira_client[1])
       IN  \E n \in 0..(Len(lines) - 1) : csv_file' = Some(SubSeq(lines, 1, n))
    /\ pc' = "failed"
    /\ exit_status' = Some(1)
    /\ UNCHANGED <<csv_output, jira_client, git_client, frame, result, previous,
                   stdout, probe, probe_ids>>

\* Lines 232-282 without a failure: everything is written, then line 282 prints.
ExportSucceeds ==
    /\ pc = "export_csv"
    /\ csv_file' = Some(CsvLines(result[1].linked, result[1].mrs_without_ticket,
                                 jira_client[1]))
    /\ stdout' = Append(stdout, Line(0, "info", <<"[INFO] CSV exported to:", csv_output[1]>>))
    /\ pc' = "done"
    /\ exit_status' = Some(0)
    /\ UNCHANGED <<csv_output, jira_client, git_client, frame, result, previous,
                   probe, probe_ids>>

\* ------------------------------------------------------------------- main
\* Line 298: args = parser.parse_args(), for a command line the parser accepts.
ParseArgs ==
    /\ pc = "parse_args"
    /\ \E arg \in CsvArgs : csv_output' = arg
    /\ pc' = "MockJiraClient"
    /\ UNCHANGED <<jira_client, git_client, frame, result, previous,
                   stdout, csv_file, exit_status, probe, probe_ids>>

\* Line 300: jira_client = MockJiraClient()
NewMockJiraClient ==
    /\ pc = "MockJiraClient"
    /\ \E issues \in Stores : jira_client' = Some([_issues |-> issues])
    /\ pc' = "MockGitClient"
    /\ UNCHANGED <<csv_output, git_client, frame, result, previous,
                   stdout, csv_file, exit_status, probe, probe_ids>>

\* Line 301: git_client = MockGitClient()
NewMockGitClient ==
    /\ pc = "MockGitClient"
    /\ \E mrs \in MRLists : git_client' = Some([_mrs |-> mrs])
    /\ pc' = "link_jira_and_git"
    /\ UNCHANGED <<csv_output, jira_client, frame, result, previous,
                   stdout, csv_file, exit_status, probe, probe_ids>>

\* Line 306: print_ascii_table(linked, mrs_without_ticket, jira_client)
PrintAsciiTable ==
    /\ pc = "print_ascii_table"
    /\ stdout' = stdout \o ReportLines(result[1].linked, result[1].mrs_without_ticket,
                                       jira_client[1])
    /\ pc' = "if_csv_output"
    /\ UNCHANGED <<csv_output, jira_client, git_client, frame, result, previous,
                   csv_file, exit_status, probe, probe_ids>>

\* A variant that exports whether or not a destination was given.
CallExportCsv_Always ==
    /\ pc = "if_csv_output"
    /\ pc' = "export_csv"
    /\ UNCHANGED <<csv_output, jira_client, git_client, frame, result, previous,
                   stdout, csv_file, exit_status, probe, probe_ids>>

\* Line 309 true: export_csv is called.
CallExportCsv ==
    /\ pc = "if_csv_output"
    /\ Truthy(csv_output)
    /\ pc' = "export_csv"
    /\ UNCHANGED <<csv_output, jira_client, git_client, frame, result, previous,
                   stdout, csv_file, exit_status, probe, probe_ids>>

\* Line 309 false: main returns and the interpreter exits with status 0.
SkipExportCsv ==
    /\ pc = "if_csv_output"
    /\ ~Truthy(csv_output)
    /\ pc' = "done"
    /\ exit_status' = Some(0)
    /\ UNCHANGED <<csv_output, jira_client, git_client, frame, result, previous,
                   stdout, csv_file, probe, probe_ids>>

\* Line 303: the call in main returns to line 306.
MainLinkReturn == LinkReturn("print_ascii_table")

Init ==
    /\ pc = "parse_args"
    /\ csv_output = None
    /\ jira_client = None
    /\ git_client = None
    /\ frame = NoFrame
    /\ result = None
    /\ previous = <<>>
    /\ stdout = <<>>
    /\ csv_file = None
    /\ exit_status = None
    /\ probe = <<>>
    /\ probe_ids = <<>>

Next ==
    \/ ParseArgs
    \/ NewMockJiraClient
    \/ NewMockGitClient
    \/ LinkCall
    \/ LinkForMr
    \/ LinkForMrDone
    \/ LinkForTicket
    \/ MainLinkReturn
    \/ PrintAsciiTable
    \/ CallExportCsv
    \/ SkipExportCsv
    \/ ExportOpenFails
    \/ ExportWriteFails
    \/ ExportSucceeds

Spec == Init /\ [][Next]_vars

\* ------------------------------------------- link_jira_and_git called again
\* The linker applied MaxRuns times in a row to the same two sources.
InitTwice ==
    /\ pc = "link_jira_and_git"
    /\ csv_output = None
    /\ \E issues \in Stores : jira_client = Some([_issues |-> issues])
    /\ \E mrs \in MRLists : git_client = Some([_mrs |-> mrs])
    /\ frame = NoFrame
    /\ result = None
    /\ previous = <<>>
    /\ stdout = <<>>
    /\ csv_file = None
    /\ exit_status = None
    /\ probe = <<>>
    /\ probe_ids = <<>>

TwiceLinkReturn == LinkReturn("returned")

\* The caller keeps the returned pair and calls again.
LinkAgain ==
    /\ pc = "returned"
    /\ Len(previous) + 1 < MaxRuns
    /\ previous' = Append(previous, result[1])
    /\ pc' = "link_jira_and_git"
    /\ UNCHANGED <<csv_output, jira_client, git_client, frame, result,
                   stdout, csv_file, exit_status, probe, probe_ids>>

NextTwice ==
    \/ LinkCall
    \/ LinkForMr
    \/ LinkForMrDone
    \/ LinkForTicket
    \/ TwiceLinkReturn
    \/ LinkAgain

SpecTwice == InitTwice /\ [][NextTwice]_vars

\* ------------------------------------------------- the extractor on its own
Pre == {<<>>, <<"f","/">>, <<"M","B","U">>}
Mid == {<<"M","B","U","X","-">>, <<"m","b","u","x","-">>, <<"M","b","u","x","-">>,
        <<"M","B","U","X">>, Wip}
Dig == {<<>>, <<"1">>, <<"1","2">>}
Suf == {<<>>, <<" ","m","b","u","x","-","2">>, <<" ","M","B","U","X","-","2">>}

\* A text is a prefix, a candidate key prefix, digits and a suffix.
Text(p, m, d, s) == p \o m \o d \o s

\* The fragments that differ from fragment in letter case only.
CaseVariants(fragments, fragment) == {u \in fragments : Upper(u) = Upper(fragment)}

\* Two merge requests: any title and branch, and a second one that differs
\* from the first in letter case only.
InitExtract ==
    /\ pc = "extract"
    /\ \E tp \in Pre, tm \in Mid, td \in Dig, ts \in Suf :
       \E bm \in Mid, bd \in Dig, bs \in Suf :
       \E tm2 \in CaseVariants(Mid, tm), ts2 \in CaseVariants(Suf, ts),
          bm2 \in CaseVariants(Mid, bm) :
            probe = << MergeRequest(1, Text(tp, tm, td, ts), Text(<<"f","/">>, bm, bd, bs),
                                    "open", "dev", "url"),
                       MergeRequest(2, Text(tp, tm2, td, ts2), Text(<<"f","/">>, bm2, bd, bs),
                                    "open", "dev", "url") >>
    /\ probe_ids = <<>>
    /\ csv_output = None
    /\ jira_client = None
    /\ git_client = None
    /\ frame = NoFrame
    /\ result = None
    /\ previous = <<>>
    /\ stdout = <<>>
    /\ csv_file = None
    /\ exit_status = None

\* extract_ticket_id_from_mr applied to each probe.
ExtractProbes ==
    /\ pc = "extract"
    /\ probe_ids' = [k \in 1..Len(probe) |-> extract_ticket_id_from_mr(probe[k])]
    /\ pc' = "extracted"
    /\ UNCHANGED <<csv_output, jira_client, git_client, frame, result, previous,
                   stdout, csv_file, exit_status, probe>>

NextExtract == ExtractProbes

SpecExtract == InitExtract /\ [][NextExtract]_vars

\* ======================================================================
\* Properties
\* ======================================================================
\* The merge requests the Merge-Request Source holds, and the tickets the
\* Ticket Source holds.
InputMRs == git_client[1]._mrs
AllTickets == [k \in 1..Len(jira_client[1]._issues) |-> jira_client[1]._issues[k].value]

\* The returned partition.
Linked == result[1].linked
Unlinked == result[1].mrs_without_ticket

\* link_jira_and_git has just returned to main: the pair is bound and
\* nothing has been done with it yet (it is not assigned again later).
Returned == result # None /\ pc = "print_ascii_table"

\* The number of positions of seq that hold x.
Occurrences(seq, x) == Cardinality({k \in 1..Len(seq) : seq[k] = x})

\* The MR sequences of the pairs k.. of linked, one after the other.
RECURSIVE GroupedMRs(_, _)
GroupedMRs(linked, k) ==
    IF k > Len(linked) THEN <<>> ELSE linked[k].mrs \o GroupedMRs(linked, k + 1)

\* Some ticket of the store has this key.
TicketExists(key) == \E k \in 1..Len(AllTickets) : AllTickets[k].key = key

\* The extracted id of mr is key.
RefersTo(mr, key) == extract_ticket_id_from_mr(mr) = Some(key)

\* C1: once link_jira_and_git has returned, every merge request of the input
\* list occurs exactly once in the linked groups' MR sequences and the
\* unlinked list taken together, so the two sizes add up to the input's.
C1_MRPartition ==
    Returned =>
        LET placed == GroupedMRs(Linked, 1) \o Unlinked
        IN  /\ \A k \in 1..Len(InputMRs) : Occurrences(placed, InputMRs[k]) = 1
            /\ Len(GroupedMRs(Linked, 1)) + Len(Unlinked) = Len(InputMRs)

\* C1's case: a group of two merge requests next to an unlinked one.
C1_Witness ==
    /\ result # None
    /\ \E k \in 1..Len(Linked) : Len(Linked[k].mrs) >= 2
    /\ Unlinked # <<>>

\* The data rows of one section of the console report.
ReportRows(section) ==
    SelectSeq(stdout, LAMBDA l : l.kind = "row" /\ l.section = section)

\* The report has been printed to its end (its last section's heading is out).
ReportRendered == \E k \in 1..Len(stdout) : stdout[k].section = 3 /\ stdout[k].kind = "rule"

\* The data rows of the console report, and of the destination file.
AllReportRows == SelectSeq(stdout, LAMBDA l : l.kind = "row")
CsvDataRows == SelectSeq(csv_file[1], LAMBDA l : l.kind = "row")

\* print_ascii_table has just returned to main.
Reported == pc = "if_csv_output" /\ ReportRendered

\* The export ran to its end.
Exported == pc = "done" /\ csv_file # None

\* The row group a CSV row belongs to, read off its empty columns.
CsvGroup(row) ==
    IF row.cells.mr_id = None THEN 2
    ELSE IF row.cells.ticket_key = None THEN 3
    ELSE 1

\* C2: every ticket of list_all_issues is in exactly one of the linked
\* partition and the report's tickets-without-MR section: linked exactly when
\* some merge request's extracted id equals its key, in the other section
\* exactly when none does, so the two counts add up to the number of tickets;
\* a completed export lists the same tickets without MR as the report.
C2_TicketPartition ==
    (Reported \/ Exported) =>
        LET without == ReportRows(2)
            csvWithout == SelectSeq(CsvDataRows, LAMBDA r : CsvGroup(r) = 2)
            pairsOf(t) == Cardinality({k \in 1..Len(Linked) : Linked[k].issue = t})
            rowsOf(t) == Cardinality({k \in 1..Len(without) : without[k].cells[1] = t.key})
            referenced(t) == \E k \in 1..Len(InputMRs) : RefersTo(InputMRs[k], t.key)
        IN  /\ \A k \in 1..Len(AllTickets) :
                 LET t == AllTickets[k]
                 IN  /\ pairsOf(t) + rowsOf(t) = 1
                     /\ (pairsOf(t) = 1) <=> referenced(t)
                     /\ (rowsOf(t) = 1) <=> ~referenced(t)
            /\ Len(Linked) + Len(without) = Len(AllTickets)
            /\ Exported =>
                  [k \in 1..Len(without) |-> Some(without[k].cells[1])]
                  = [k \in 1..Len(csvWithout) |-> csvWithout[k].cells.ticket_key]

\* C2's case: a store with a referenced ticket and an unreferenced one,
\* reported and exported.
C2_Witness ==
    /\ Exported
    /\ Linked # <<>>
    /\ ReportRows(2) # <<>>
    /\ Len(InputMRs) >= 2

\* C4: a merge request is in the returned unlinked list exactly when no id is
\* extracted from it or its extracted id has no ticket in the Ticket Source;
\* such a merge request is kept there and is in no linked group.
C4_UnlinkedIff ==
    Returned =>
        \A k \in 1..Len(InputMRs) :
            LET mr == InputMRs[k]
                id == extract_ticket_id_from_mr(mr)
                unresolved == id = None \/ ~TicketExists(id[1])
            IN  /\ (Occurrences(Unlinked, mr) >= 1) <=> unresolved
                /\ unresolved => Occurrences(GroupedMRs(Linked, 1), mr) = 0

\* C4's case: an id-less merge request and one naming an unknown ticket, both unlinked.
C4_Witness ==
    /\ result # None
    /\ \E a, b \in 1..Len(Unlinked) :
          /\ extract_ticket_id_from_mr(Unlinked[a]) = None
          /\ extract_ticket_id_from_mr(Unlinked[b]) # None
    /\ Linked # <<>>

\* The distinct ids extracted from mrs[k..], in order of first appearance,
\* leaving out those in seen.
RECURSIVE FirstSeenIds(_, _, _)
FirstSeenIds(mrs, k, seen) ==
    IF k > Len(mrs) THEN <<>>
    ELSE LET id == extract_ticket_id_from_mr(mrs[k])
         IN  IF id = None \/ id[1] \in seen
             THEN FirstSeenIds(mrs, k + 1, seen)
             ELSE <<id[1]>> \o FirstSeenIds(mrs, k + 1, seen \cup {id[1]})

\* The merge requests of mrs that refer to key, in the order of mrs.
Referring(mrs, key) == SelectSeq(mrs, LAMBDA mr : RefersTo(mr, key))

\* The merge requests referring to keys[k..], key by key.
RECURSIVE ReferringAll(_, _, _)
ReferringAll(mrs, keys, k) ==
    IF k > Len(keys) THEN <<>>
    ELSE Referring(mrs, keys[k]) \o ReferringAll(mrs, keys, k + 1)

\* C5: linked pairs are in first-seen order of their ticket ids among the
\* input; each pair's MRs are in input order; the unlinked list is the id-less
\* MRs in input order followed by the unknown-ticket MRs, group by group in
\* first-seen order of the id and in input order inside a group.
C5_Ordering ==
    Returned =>
        LET ids == FirstSeenIds(InputMRs, 1, {})
            known == SelectSeq(ids, TicketExists)
            unknown == SelectSeq(ids, LAMBDA id : ~TicketExists(id))
        IN  /\ [k \in 1..Len(Linked) |-> Linked[k].issue.key] = known
            /\ \A k \in 1..Len(Linked) :
                 Linked[k].mrs = Referring(InputMRs, Linked[k].issue.key)
            /\ Unlinked =
                 SelectSeq(InputMRs, LAMBDA mr : extract_ticket_id_from_mr(mr) = None)
                 \o ReferringAll(InputMRs, unknown, 1)

\* C5's case: an unknown-ticket merge request comes before an id-less one in
\* the input, and two tickets are linked.
C5_Witness ==
    /\ result # None
    /\ \E a, b \in 1..Len(InputMRs) :
          /\ a < b
          /\ extract_ticket_id_from_mr(InputMRs[a]) # None
          /\ ~TicketExists(extract_ticket_id_from_mr(InputMRs[a])[1])
          /\ extract_ticket_id_from_mr(InputMRs[b]) = None
    /\ Linked # <<>>

\* C10: every returned pair has at least one merge request, no two pairs
\* carry the same ticket key, and every merge request of a pair has an
\* extracted id equal to the pair's ticket key.
C10_PairsWellFormed ==
    Returned =>
        /\ \A k \in 1..Len(Linked) :
              /\ Linked[k].mrs # <<>>
              /\ \A j \in 1..Len(Linked[k].mrs) :
                    RefersTo(Linked[k].mrs[j], Linked[k].issue.key)
        /\ \A a, b \in 1..Len(Linked) :
              a # b => Linked[a].issue.key # Linked[b].issue.key

\* C10's case: two pairs, one of them with two merge requests.
C10_Witness ==
    /\ result # None
    /\ Len(Linked) >= 2
    /\ \E k \in 1..Len(Linked) : Len(Linked[k].mrs) >= 2

\* A match of the ticket pattern starts at position i of text: the five
\* characters from i spell MBUX- in some letter case and a digit follows.
StartsMatch(text, i) ==
    /\ i + 5 <= Len(text)
    /\ Upper(SubSeq(text, i, i + 4)) = <<"M","B","U","X","-">>
    /\ text[i + 5] \in Digits

HasMatch(text) == \E i \in 1..Len(text) : StartsMatch(text, i)

\* The first match in text: from the least starting position to the end of
\* the digits that follow the hyphen.
FirstMatch(text) ==
    LET i == CHOOSE i \in 1..Len(text) :
                StartsMatch(text, i) /\ \A j \in 1..(i - 1) : ~StartsMatch(text, j)
        e == CHOOSE e \in (i + 5)..Len(text) :
                /\ \A j \in (i + 5)..e : text[j] \in Digits
                /\ e < Len(text) => text[e + 1] \notin Digits
    IN  SubSeq(text, i, e)

\* C3: the title is tried before the branch: a match in the title gives the
\* first match of the title in upper case whatever the branch holds; the
\* branch decides only when the title has no match; and two merge requests
\* that differ in letter case only yield the same upper-case id.
C3_TitleFirstCaseInsensitive ==
    pc = "extracted" =>
        /\ \A k \in 1..Len(probe) :
              LET mr == probe[k]
                  id == probe_ids[k]
              IN  /\ HasMatch(mr.title) => id = Some(Upper(FirstMatch(mr.title)))
                  /\ (~HasMatch(mr.title) /\ HasMatch(mr.source_branch)) =>
                        id = Some(Upper(FirstMatch(mr.source_branch)))
                  /\ id # None => id[1] = Upper(id[1])
        /\ probe_ids[1] = probe_ids[2]

\* C3's case: title and branch hold different ids, the title holds two, and
\* the second probe spells the title's id in another letter case.
C3_Witness ==
    /\ pc = "extracted"
    /\ HasMatch(probe[1].title)
    /\ HasMatch(probe[1].source_branch)
    /\ Upper(FirstMatch(probe[1].title)) # Upper(FirstMatch(probe[1].source_branch))
    /\ FirstMatch(probe[1].title) # FirstMatch(probe[2].title)
    /\ Len(probe[1].title) > Len(FirstMatch(probe[1].title)) + 5
    /\ probe_ids[1] = Some(Upper(FirstMatch(probe[1].title)))
    /\ probe_ids[2] = probe_ids[1]

\* C6: link_jira_and_git never changes what the two sources hold, and a
\* call on the same sources returns what the earlier calls returned.
C6_Idempotent ==
    [][ /\ jira_client' = jira_client
        /\ git_client' = git_client
        /\ pc' = "returned" =>
              \A k \in 1..Len(previous') : previous'[k] = result'[1] ]_vars

\* C6's case: a second call has returned a partition with both parts non-empty.
C6_Witness ==
    /\ pc = "returned"
    /\ Len(previous) >= 1
    /\ Linked # <<>>
    /\ Unlinked # <<>>

\* A report row and a CSV row stand for the same record of the same group.
SameRecord(line, row) ==
    /\ line.section = CsvGroup(row)
    /\ line.section = 1 =>
          /\ row.cells.ticket_key = Some(line.cells[1])
          /\ row.cells.mr_id = Some(line.cells[4])
          /\ row.cells.mr_title = Some(line.cells[7])
    /\ line.section = 2 =>
          /\ row.cells.ticket_key = Some(line.cells[1])
          /\ row.cells.mr_title = Some(line.cells[4])
    /\ line.section = 3 =>
          /\ row.cells.mr_id = Some(line.cells[1])
          /\ row.cells.mr_title = Some(line.cells[4])

\* The tickets of the store whose key no linked pair carries, in store order.
UnlinkedTickets ==
    SelectSeq(AllTickets,
              LAMBDA t : \A k \in 1..Len(Linked) : Linked[k].issue.key # t.key)

\* C7: a completed export holds the same rows in the same order as the
\* report: one per (ticket, MR) of every linked group, then one per ticket
\* without a linked key in the store's order, then one per unlinked MR; so the
\* number of CSV data rows is the sum of the three counts and equals the
\* number of report rows.
C7_CsvMatchesReport ==
    Exported =>
        LET rep == AllReportRows
            rows == CsvDataRows
            grouped == GroupedMRs(Linked, 1)
            n1 == Len(grouped)
            n2 == Len(UnlinkedTickets)
        IN  /\ Len(rows) = Len(rep)
            /\ Len(rows) = n1 + n2 + Len(Unlinked)
            /\ \A k \in 1..Len(rows) : SameRecord(rep[k], rows[k])
            /\ \A k \in 1..Len(rows) :
                  /\ k <= n1 => /\ CsvGroup(rows[k]) = 1
                                /\ rows[k].cells.mr_id = Some(grouped[k].id)
                  /\ (n1 < k /\ k <= n1 + n2) =>
                        /\ CsvGroup(rows[k]) = 2
                        /\ rows[k].cells.ticket_key = Some(UnlinkedTickets[k - n1].key)
                  /\ n1 + n2 < k =>
                        /\ CsvGroup(rows[k]) = 3
                        /\ rows[k].cells.mr_id = Some(Unlinked[k - n1 - n2].id)

\* C7's case: an export with all three groups, one ticket linked to two MRs.
C7_Witness ==
    /\ Exported
    /\ \E k \in 1..Len(Linked) : Len(Linked[k].mrs) >= 2
    /\ UnlinkedTickets # <<>>
    /\ Unlinked # <<>>

\* The export step has begun.
ExportBegun == pc = "export_csv" \/ csv_file # None \/ exit_status = Some(1)

====
